---- MODULE Spec2Model ----
(***************************************************************************)
(* The task/session orchestration of UnifiedIsekAdapter                    *)
(* (src/agent_server/adapter/isek_adapter.py) over EnhancedTaskStore       *)
(* (src/agent_server/utils/task.py) and SessionManager/SessionStore        *)
(* (src/agent_server/utils/session.py).                                    *)
(*                                                                         *)
(* execute_async and cancel_async are asyncio generators run on one event  *)
(* loop: the code between two suspension points is atomic.  A suspension   *)
(* point is a yield of the outermost generator (the consumer awaits the    *)
(* event queue before it resumes the generator), an asyncio.sleep, and the *)
(* await of run_in_executor.  The awaits of the in-memory task store never *)
(* suspend (an uncontended asyncio.Lock).  An asyncio.sleep that directly  *)
(* follows a yield changes no state in between and is merged with it.      *)
(* Each action below is one such atomic segment.  Timestamps and the       *)
(* session's message_count are not modelled.                               *)
(***************************************************************************)
EXTENDS Integers, Sequences, FiniteSets, TLC

\* ---------------------------------------------------------------- bounds
NProcs == 2
MaxCalls == 2
MaxConvCalls == 4
MaxCancels == 1
MaxChunks == 2
MaxTurns == 4      \* turns saved directly through the session manager
MaxLimit == 5      \* the largest limit asked of get_conversation_history

Procs == 1..NProcs
Tasks == {"t1", "t2"}
SessionIds == {"s1", "s2"}

\* ---------------------------------------------------------------- texts
\* A text is the sequence of its whitespace-separated words (what
\* str.split() returns); leading and trailing whitespace is what
\* str.strip() removes and is not represented.
HelpShort == <<"help">>
HelpLong == <<"I", "need", "Help", "with", "this">>
PlainInput == <<"write", "a", "poem", "about", "cats">>
LongInput == <<"please", "Analyze", "this", "data", "set">>
YesInput == <<"YES">>
NoInput == <<"no">>
MaybeInput == <<"maybe">>
BriefInput == <<"fix", "my", "code", "now">>
KeywordBrief == <<"Analyze", "my", "data">>
HelpNine == <<"this", "would", "be", "helpful", "for", "my", "new", "blog", "post">>
HelpTen == <<"can", "you", "help", "me", "write", "one", "poem", "about", "my", "cats">>

ResultText == <<"here", "you", "go">>
TaskCompletedText == <<"Task", "completed">>
StreamingResponseText == <<"streaming", "response">>
Results == {ResultText}

\* str.lower() on one word
Lower(w) ==
    CASE w = "Help" -> "help"
      [] w = "Analyze" -> "analyze"
      [] w = "YES" -> "yes"
      [] w = "I" -> "i"
      [] w = "Task" -> "task"
      [] OTHER -> w

\* "help" in w (substring test on a lower-cased word)
ContainsHelp(w) == w \in {"help", "helpful"}

long_task_keywords == {"analyze", "process", "generate", "create", "build", "train", "complex"}

\* keyword in w, for the words of the model's vocabulary
ContainsKeyword(w) == w \in long_task_keywords

word_count(text) == Len(text)

WordCountThreshold == 5
HelpWordCountThreshold == 10

RequiredInfoBrief == <<"specific_goal", "context", "preferences">>
RequiredInfoHelp == <<"topic", "specific_question">>

\* analyze with its two tests in the other order: the help test first
AnalyzeMultiturn_help_first(user_input) ==
    IF (\E i \in 1..Len(user_input) : ContainsHelp(Lower(user_input[i])))
       /\ word_count(user_input) < HelpWordCountThreshold
    THEN [needs_more_info |-> TRUE, required_info |-> RequiredInfoHelp]
    ELSE IF word_count(user_input) < WordCountThreshold
         THEN [needs_more_info |-> TRUE, required_info |-> RequiredInfoBrief]
         ELSE [needs_more_info |-> FALSE, required_info |-> <<>>]

\* analyze with inclusive thresholds (<= in place of <)
AnalyzeMultiturn_inclusive(user_input) ==
    IF word_count(user_input) <= WordCountThreshold
    THEN [needs_more_info |-> TRUE, required_info |-> RequiredInfoBrief]
    ELSE IF (\E i \in 1..Len(user_input) : ContainsHelp(Lower(user_input[i])))
            /\ word_count(user_input) <= HelpWordCountThreshold
         THEN [needs_more_info |-> TRUE, required_info |-> RequiredInfoHelp]
         ELSE [needs_more_info |-> FALSE, required_info |-> <<>>]

\* _analyze_multiturn_requirement
AnalyzeMultiturn(user_input) ==
    IF word_count(user_input) < WordCountThreshold
    THEN [needs_more_info |-> TRUE, required_info |-> RequiredInfoBrief]
    ELSE IF (\E i \in 1..Len(user_input) : ContainsHelp(Lower(user_input[i])))
            /\ word_count(user_input) < HelpWordCountThreshold
         THEN [needs_more_info |-> TRUE, required_info |-> RequiredInfoHelp]
         ELSE [needs_more_info |-> FALSE, required_info |-> <<>>]

\* _is_long_running_task
IsLongRunningTask(prompt) ==
    \E i \in 1..Len(prompt) : ContainsKeyword(Lower(prompt[i]))

AffirmativeWords == {"yes", "y", "proceed", "ok", "queren"}
NegativeWords == {"no", "n", "cancel", "stop", "quxiao"}

\* user_input.lower().strip(): a text of several words keeps its inner
\* whitespace and equals no vocabulary entry
ConfirmationClass(user_input) ==
    IF Len(user_input) = 1 /\ Lower(user_input[1]) \in AffirmativeWords THEN "yes"
    ELSE IF Len(user_input) = 1 /\ Lower(user_input[1]) \in NegativeWords THEN "no"
    ELSE "other"

\* ---------------------------------------------------------------- state
VARIABLES
    tasks,               \* InMemoryTaskStore.tasks: task id -> recorded state
    task_history,        \* EnhancedTaskStore.task_history
    task_metadata,       \* EnhancedTaskStore.task_metadata (context_id)
    running_tasks,       \* UnifiedIsekAdapter.running_tasks
    sessions,            \* SessionStore.sessions (existence)
    conversation_history,\* SessionStore.conversation_history
    conversation_states, \* UnifiedIsekAdapter.conversation_states
    enable_streaming,    \* UnifiedIsekAdapter.enable_streaming
    has_stream,          \* hasattr(isek_team, 'stream')
    run,                 \* the execute_async generators: position and locals;
                         \* responder: what the Responder did in this call;
                         \* cancel_at: the number of events yielded when the
                         \* first cancel of the call's task was accepted;
                         \* stage, turns: the stage of the session and the
                         \* length of its history when the call was made
    out,                 \* the events each execute_async stream has yielded
    lastCancel,          \* the latest cancel_async call: what it yielded, the
                         \* recorded state before and after, whether the task
                         \* was in running_tasks, the stage of its session
    cancelAccepted,      \* task ids for which cancel_async took the cancel branch
    nCalls,              \* execute_async calls made
    nCancels,            \* cancel_async calls made
    lastQuery            \* the latest direct call of get_conversation_history:
                         \* its arguments and what it returned

vars == <<tasks, task_history, task_metadata, running_tasks, sessions,
          conversation_history, conversation_states, enable_streaming,
          has_stream, run, out, lastCancel, cancelAccepted, nCalls, nCancels,
          lastQuery>>

NoTask == "none"
NoSession == "none"
TerminalStates == {"completed", "failed", "cancelled"}
TaskStates == {"submitted", "working"} \cup TerminalStates

NoRunning == [present |-> FALSE, cancelled |-> FALSE, session_id |-> NoSession]
NoConv == [stage |-> "idle", original_request |-> <<>>, required_info |-> <<>>,
           collected_info |-> <<>>, current_question |-> "none"]

IdleRun == [pc |-> "idle", task_id |-> NoTask, session_id |-> NoSession,
            user_input |-> <<>>, cont |-> FALSE, prompt |-> <<>>,
            caller |-> "none", i |-> 0, responder |-> "none",
            next_state |-> "none", tail |-> "none", cancel_at |-> 0,
            stage |-> "idle", turns |-> 0]

NoQuery == [session_id |-> NoSession, limit |-> 0, result |-> <<>>]

NoCancel == [task_id |-> NoTask, event |-> "none", tracked |-> FALSE,
             before |-> "none", after |-> "none", changed |-> FALSE,
             stage |-> "idle"]

\* ---------------------------------------------------------------- events
\* text: the words of a message whose content the model follows (the
\* summary of the collected information), empty otherwise
StatusEvent(state, final, progress) ==
    [type |-> "status", state |-> state, final |-> final, progress |-> progress,
     tag |-> "none", text |-> <<>>]
MessageEvent(tag) ==
    [type |-> "message", state |-> "none", final |-> FALSE, progress |-> 0,
     tag |-> tag, text |-> <<>>]
ErrorEvent ==
    [type |-> "error", state |-> "none", final |-> TRUE, progress |-> 0,
     tag |-> "none", text |-> <<>>]
\* the message "Perfect! I've collected all the information: <summary> ..."
SummaryEvent(summary) == [MessageEvent("summary") EXCEPT !.text = summary]


\* the current state as one record, so that the methods compose in sequence
S == [tasks |-> tasks, task_history |-> task_history, task_metadata |-> task_metadata,
      running_tasks |-> running_tasks, sessions |-> sessions,
      conversation_history |-> conversation_history,
      conversation_states |-> conversation_states,
      enable_streaming |-> enable_streaming, has_stream |-> has_stream,
      run |-> run, out |-> out, lastCancel |-> lastCancel,
      cancelAccepted |-> cancelAccepted, nCalls |-> nCalls, nCancels |-> nCancels,
      lastQuery |-> lastQuery]

Set(s) ==
    /\ tasks' = s.tasks
    /\ task_history' = s.task_history
    /\ task_metadata' = s.task_metadata
    /\ running_tasks' = s.running_tasks
    /\ sessions' = s.sessions
    /\ conversation_history' = s.conversation_history
    /\ conversation_states' = s.conversation_states
    /\ enable_streaming' = s.enable_streaming
    /\ has_stream' = s.has_stream
    /\ run' = s.run
    /\ out' = s.out
    /\ lastCancel' = s.lastCancel
    /\ cancelAccepted' = s.cancelAccepted
    /\ nCalls' = s.nCalls
    /\ nCancels' = s.nCancels
    /\ lastQuery' = s.lastQuery

\* ------------------------------------------------------ EnhancedTaskStore
\* update_task_status: overwrites the recorded state (creating the record
\* when there is none) and appends to the status history
update_task_status(s, task_id, status) ==
    [s EXCEPT !.tasks[task_id] = status,
              !.task_history[task_id] = Append(@, status)]

\* create_task: sets the metadata, resets the history, records submitted
create_task(s, task_id, context_id) ==
    update_task_status(
        [s EXCEPT !.task_metadata[task_id] = context_id,
                  !.task_history[task_id] = <<>>],
        task_id, "submitted")

\* ------------------------------------------------ SessionStore / Manager
\* SessionStore.create_session: a new record and an empty history
create_session(s, session_id) ==
    [s EXCEPT !.sessions[session_id] = TRUE,
              !.conversation_history[session_id] = <<>>]

\* a session context that is created anew at every call
manage_session_context_recreate(s, session_id) == create_session(s, session_id)

\* _manage_session_context: create the session when it is absent
manage_session_context(s, session_id) ==
    IF s.sessions[session_id] THEN s ELSE create_session(s, session_id)

\* a store with one history for all sessions: the turn is appended to each
save_conversation_turn_shared(s, session_id, user_input, agent_response) ==
    [s EXCEPT !.sessions[session_id] = TRUE,
              !.conversation_history =
                  [sid \in DOMAIN @ |->
                      Append(@[sid], [user_input |-> user_input,
                                      agent_response |-> agent_response])]]

\* add_conversation_turn via SessionManager.save_conversation_turn: the
\* session is created when it is absent, then the turn is appended
save_conversation_turn(s, session_id, user_input, agent_response) ==
    LET s1 == IF s.sessions[session_id] THEN s ELSE create_session(s, session_id)
    IN [s1 EXCEPT !.conversation_history[session_id] =
                      Append(@, [user_input |-> user_input,
                                 agent_response |-> agent_response])]

\* a history read from its old end: history[:limit]
get_conversation_history_oldest(s, session_id, limit) ==
    LET h == s.conversation_history[session_id]
    IN IF limit > 0 /\ Len(h) > limit
       THEN SubSeq(h, 1, limit)
       ELSE h

\* get_conversation_history: history[-limit:] if limit > 0 else history
get_conversation_history(s, session_id, limit) ==
    LET h == s.conversation_history[session_id]
    IN IF limit > 0 /\ Len(h) > limit
       THEN SubSeq(h, Len(h) - limit + 1, Len(h))
       ELSE h

RECURSIVE ContextWords(_)
\* get_conversation_context: "User: ..." and "Assistant: ..." per turn
ContextWords(turns) ==
    IF turns = <<>> THEN <<>>
    ELSE <<"User:">> \o Head(turns).user_input \o <<"Assistant:">>
         \o Head(turns).agent_response \o ContextWords(Tail(turns))

ContextLimit == 3

\* _build_contextual_prompt
build_contextual_prompt(s, session_id, user_input) ==
    LET context_text == ContextWords(get_conversation_history(s, session_id, ContextLimit))
    IN IF context_text # <<>>
       THEN <<"Previous", "conversation", "context:">> \o context_text
            \o <<"Current", "user", "input:">> \o user_input
            \o <<"Please", "respond", "considering", "the", "conversation", "history.">>
       ELSE user_input

\* ----------------------------------------------------- UnifiedIsekAdapter
\* _is_task_cancelled: running_tasks.get(task_id, {}).get("cancelled", False)
is_task_cancelled(s, task_id) == s.running_tasks[task_id].cancelled

emit(s, p, ev) == [s EXCEPT !.out[p] = Append(@, ev)]

\* the finally clause of execute_async; the generator is exhausted
finally(s, p) ==
    [s EXCEPT !.running_tasks[s.run[p].task_id] = NoRunning,
              !.run[p] = IdleRun,
              !.out[p] = <<>>]

\* a loop of execute_async that forwards every event, cancelled or not
yield_outer_unchecked(s, p, ev, pc) == [emit(s, p, ev) EXCEPT !.run[p].pc = pc]

\* an event of an inner generator passing the loop of execute_async:
\* "if self._is_task_cancelled(task_id): break" and then "yield event".
\* After the break nothing runs but the finally clause: the branches with a
\* return return, and step 8 is guarded by the same flag.
yield_outer(s, p, ev, pc) ==
    IF is_task_cancelled(s, s.run[p].task_id)
    THEN finally(s, p)
    ELSE [emit(s, p, ev) EXCEPT !.run[p].pc = pc]

\* the except clause without its update_task_status: the error event is
\* yielded and the recorded state stays what it was
except_exception_unrecorded(s, p) ==
    [emit(s, p, ErrorEvent) EXCEPT !.run[p].pc = "y_final"]

\* except Exception: record failed, yield the A2AError
except_exception(s, p) ==
    [emit(update_task_status(s, s.run[p].task_id, "failed"), p, ErrorEvent)
        EXCEPT !.run[p].pc = "y_final"]

\* except TaskCancelledException: yield the final cancelled status
except_cancelled(s, p) ==
    [emit(s, p, StatusEvent("cancelled", TRUE, 0)) EXCEPT !.run[p].pc = "y_final"]

\* step 8 of execute_async
step8(s, p) ==
    LET r == s.run[p]
    IN IF ~is_task_cancelled(s, r.task_id)
       THEN [emit(update_task_status(
                     save_conversation_turn(s, r.session_id, r.user_input, TaskCompletedText),
                     r.task_id, "completed"),
                  p, StatusEvent("completed", TRUE, 0))
               EXCEPT !.run[p].pc = "y_final"]
       ELSE finally(s, p)

\* what follows the exhaustion of _execute_short_task at its three call sites
after_short(s, p) ==
    LET r == s.run[p]
    IN CASE r.caller = "main" -> step8(s, p)
         [] r.caller = "conf" ->
              finally([s EXCEPT !.conversation_states[r.session_id] = NoConv], p)
         [] OTHER -> finally(s, p)

\* ------------------------------------------------ multi-turn conversation
\* a dict in insertion order: a sequence of key/value pairs
DictKeys(d) == {d[k].key : k \in 1..Len(d)}
\* a dict that puts a new key in front of the others
DictPut_front(d, key, value) ==
    IF key \in DictKeys(d)
    THEN [k \in 1..Len(d) |-> IF d[k].key = key THEN [key |-> key, value |-> value] ELSE d[k]]
    ELSE <<[key |-> key, value |-> value]>> \o d

DictPut(d, key, value) ==
    IF key \in DictKeys(d)
    THEN [k \in 1..Len(d) |-> IF d[k].key = key THEN [key |-> key, value |-> value] ELSE d[k]]
    ELSE Append(d, [key |-> key, value |-> value])

\* a remaining list that forgets what was collected
RemainingInfo_all(conv) == conv.required_info

\* the fields of required_info not in collected_info, in list order
RemainingInfo(conv) ==
    SelectSeq(conv.required_info, LAMBDA f : f \notin DictKeys(conv.collected_info))

\* the state saved by _handle_multiturn_flow and _handle_new_conversation
NewConversationState(original_request, required_info) ==
    [stage |-> "collecting_info", original_request |-> original_request,
     required_info |-> required_info, collected_info |-> <<>>,
     current_question |-> required_info[1]]

RECURSIVE InfoLines(_)
\* the "- key: value" lines of _generate_info_summary and _build_full_context
InfoLines(d) ==
    IF d = <<>> THEN <<>>
    ELSE <<"-", Head(d).key>> \o Head(d).value \o InfoLines(Tail(d))

\* _generate_info_summary: one line per item of collected_info, in the
\* order of the dict
generate_info_summary(conv) == InfoLines(conv.collected_info)

\* _build_full_context
build_full_context(conv) ==
    <<"Original", "request:">> \o conv.original_request
    \o <<"Additional", "information:">> \o InfoLines(conv.collected_info)

\* a message event followed by a status event and a closing statement:
\* the common shape of the clarification, collection, abort and re-prompt
\* branches
script_event(s, p, ev, next_state, tail) ==
    yield_outer([s EXCEPT !.run[p].next_state = next_state, !.run[p].tail = tail],
                p, ev, "c_msg")

script(s, p, tag, next_state, tail) ==
    script_event(s, p, MessageEvent(tag), next_state, tail)

\* _handle_multiturn_flow: original_request is
\* session_context.get("user_input", ""), and the session data has no such key
handle_multiturn_flow(s, p) == script(s, p, "clarification", "working", "set_flow")

\* a collection handler that asks its next question without moving
\* current_question to it
handle_info_collection_stale(s, p) ==
    LET r == s.run[p]
        conv == s.conversation_states[r.session_id]
        conv1 == [conv EXCEPT !.collected_info =
                      DictPut(@, conv.current_question, r.user_input)]
    IN IF RemainingInfo(conv1) # <<>>
       THEN script([s EXCEPT !.conversation_states[r.session_id] = conv1],
                   p, "next_question", "working", "none")
       ELSE script_event([s EXCEPT !.conversation_states[r.session_id] =
                              [conv1 EXCEPT !.stage = "confirmation"]],
                         p, SummaryEvent(generate_info_summary(conv1)),
                         "working", "none")

\* _handle_info_collection_continuation up to its first yield
handle_info_collection_continuation(s, p) ==
    LET r == s.run[p]
        conv == s.conversation_states[r.session_id]
        conv1 == IF conv.current_question # "none"
                 THEN [conv EXCEPT !.collected_info =
                           DictPut(@, conv.current_question, r.user_input)]
                 ELSE conv
        remaining_info == RemainingInfo(conv1)
    IN IF remaining_info # <<>>
       THEN script([s EXCEPT !.conversation_states[r.session_id] =
                        [conv1 EXCEPT !.current_question = remaining_info[1]]],
                   p, "next_question", "working", "none")
       ELSE script_event([s EXCEPT !.conversation_states[r.session_id] =
                              [conv1 EXCEPT !.stage = "confirmation"]],
                         p, SummaryEvent(generate_info_summary(conv1)),
                         "working", "none")

\* a confirmation handler without its negative branch: "no" is re-prompted
handle_confirmation_no_abort(s, p) ==
    LET r == s.run[p]
        conv == s.conversation_states[r.session_id]
        user_response == ConfirmationClass(r.user_input)
    IN CASE user_response = "yes" ->
              yield_outer([s EXCEPT !.run[p].prompt = build_full_context(conv),
                                    !.run[p].caller = "conf"],
                          p, StatusEvent("working", FALSE, 0), "conf_status")
         [] OTHER -> script(s, p, "reprompt", "working", "none")

\* a confirmation handler that aborts on every reply that is not
\* affirmative
handle_confirmation_strict(s, p) ==
    LET r == s.run[p]
        conv == s.conversation_states[r.session_id]
        user_response == ConfirmationClass(r.user_input)
    IN CASE user_response = "yes" ->
              yield_outer([s EXCEPT !.run[p].prompt = build_full_context(conv),
                                    !.run[p].caller = "conf"],
                          p, StatusEvent("working", FALSE, 0), "conf_status")
         [] OTHER -> script(s, p, "aborted", "cancelled", "pop")

\* _handle_confirmation_continuation up to its first yield
handle_confirmation_continuation(s, p) ==
    LET r == s.run[p]
        conv == s.conversation_states[r.session_id]
        user_response == ConfirmationClass(r.user_input)
    IN CASE user_response = "yes" ->
              yield_outer([s EXCEPT !.run[p].prompt = build_full_context(conv),
                                    !.run[p].caller = "conf"],
                          p, StatusEvent("working", FALSE, 0), "conf_status")
         [] user_response = "no" -> script(s, p, "aborted", "cancelled", "pop")
         [] OTHER -> script(s, p, "reprompt", "working", "none")

\* the end of a script that saves no conversation state
script_end_unsaved(s, p) == finally(s, p)

\* the statement that closes a script, then the finally clause
script_end(s, p) ==
    LET r == s.run[p]
        m == AnalyzeMultiturn(r.user_input)
    IN finally(
         CASE r.tail = "set_flow" ->
                [s EXCEPT !.conversation_states[r.session_id] =
                    NewConversationState(<<>>, m.required_info)]
           [] r.tail = "set_new" ->
                [s EXCEPT !.conversation_states[r.session_id] =
                    NewConversationState(r.user_input, m.required_info)]
           [] r.tail = "pop" ->
                [s EXCEPT !.conversation_states[r.session_id] = NoConv]
           [] OTHER -> s,
         p)

\* ------------------------------------------------------------ execution
Steps == <<20, 40, 70, 90>>   \* the progress of the checkpoints, in percent
ChunkSize == 5

\* the number of chunks the simulated streaming cuts a result into
ChunkCount(result) == (Len(result) + ChunkSize - 1) \div ChunkSize

execute_long_task_unchecked(s, p, i, o) ==
    LET r == s.run[p]
        s1 == [s EXCEPT !.run[p].i = i]
    IN IF i <= Len(Steps)
       THEN IF is_task_cancelled(s, r.task_id)
            THEN except_cancelled(s1, p)
            ELSE yield_outer(s1, p, StatusEvent("working", FALSE, Steps[i]), "long_status")
       ELSE IF o.kind # "return"
            THEN except_exception([s1 EXCEPT !.run[p].responder = "raised"], p)
            ELSE yield_outer(
                   save_conversation_turn(
                       [s1 EXCEPT !.run[p].responder = "returned"],
                       r.session_id, r.prompt, o.text),
                   p, MessageEvent("result"), "long_result")

\* _execute_long_task from the head of iteration i of its loop (i beyond
\* the steps: the call of the Responder); o is what the Responder does
execute_long_task(s, p, i, o) ==
    LET r == s.run[p]
        s1 == [s EXCEPT !.run[p].i = i]
    IN IF i <= Len(Steps)
       THEN IF is_task_cancelled(s, r.task_id)
            THEN except_cancelled(s1, p)
            ELSE yield_outer(s1, p, StatusEvent("working", FALSE, Steps[i]), "long_status")
       ELSE IF ~is_task_cancelled(s, r.task_id)
            THEN IF o.kind # "return"
                 THEN except_exception([s1 EXCEPT !.run[p].responder = "raised"], p)
                 ELSE yield_outer(
                        save_conversation_turn(
                            [s1 EXCEPT !.run[p].responder = "returned"],
                            r.session_id, r.prompt, o.text),
                        p, MessageEvent("result"), "long_result")
            ELSE step8(s1, p)

\* the end of _execute_streaming_task: the turn is saved, the generator ends
stream_end(s, p) ==
    LET r == s.run[p]
    IN after_short(
         save_conversation_turn([s EXCEPT !.run[p].responder = "returned"],
                                r.session_id, r.prompt, StreamingResponseText),
         p)

\* the native stream of the Responder, asked for fragment i + 1: it
\* returns a fragment, ends or raises
stream_native(s, p, o) ==
    LET r == s.run[p]
    IN CASE o.kind = "raise" -> except_exception([s EXCEPT !.run[p].responder = "raised"], p)
         [] o.kind = "return" /\ r.i < MaxChunks ->
              yield_outer([s EXCEPT !.run[p].i = r.i + 1, !.run[p].responder = "invoked"],
                          p, MessageEvent("chunk"), "stream_chunk")
         [] OTHER -> stream_end(s, p)

\* the simulated stream: r.i chunks of the result are left
stream_simulated(s, p) ==
    LET r == s.run[p]
    IN IF r.i > 0
       THEN yield_outer([s EXCEPT !.run[p].i = r.i - 1], p, MessageEvent("chunk"), "sim_chunk")
       ELSE stream_end(s, p)

\* _execute_short_task, entered: o is what the Responder does where it is
\* called synchronously
execute_short_task(s, p, prompt, caller, o) ==
    LET s1 == [s EXCEPT !.run[p].prompt = prompt, !.run[p].caller = caller,
                        !.run[p].i = 0]
    IN IF ~s.enable_streaming
       THEN [s1 EXCEPT !.run[p].pc = "in_executor", !.run[p].responder = "invoked"]
       ELSE IF s.has_stream
            THEN stream_native(s1, p, o)
            ELSE IF o.kind = "return"
                 THEN stream_simulated(
                        [s1 EXCEPT !.run[p].i = ChunkCount(o.text),
                                   !.run[p].responder = "returned"], p)
                 ELSE except_exception([s1 EXCEPT !.run[p].responder = "raised"], p)

\* _handle_new_conversation
handle_new_conversation(s, p, o) ==
    LET r == s.run[p]
    IN IF AnalyzeMultiturn(r.user_input).needs_more_info
       THEN script(s, p, "clarification", "working", "set_new")
       ELSE execute_short_task(s, p, r.user_input, "new", o)

\* _handle_conversation_continuation
handle_conversation_continuation(s, p, o) ==
    LET stage == s.conversation_states[s.run[p].session_id].stage
    IN CASE stage = "collecting_info" -> handle_info_collection_continuation(s, p)
         [] stage = "confirmation" -> handle_confirmation_continuation(s, p)
         [] OTHER -> handle_new_conversation(s, p, o)

\* execute_async from its first yield (the started event) to the next
\* suspension point: steps 3 to 7
execute_dispatch_classify_first(s0, p, o) ==
    LET r == s0.run[p]
        s == manage_session_context(s0, r.session_id)
        prompt == build_contextual_prompt(s, r.session_id, r.user_input)
    IN IF r.cont
       THEN handle_conversation_continuation(s, p, o)
       ELSE IF IsLongRunningTask(prompt)
            THEN execute_long_task([s EXCEPT !.run[p].prompt = prompt,
                                             !.run[p].caller = "main"], p, 1, o)
            ELSE IF AnalyzeMultiturn(r.user_input).needs_more_info
                 THEN handle_multiturn_flow(s, p)
                 ELSE execute_short_task(s, p, prompt, "main", o)

execute_dispatch(s0, p, o) ==
    LET r == s0.run[p]
        s == manage_session_context(s0, r.session_id)
        prompt == build_contextual_prompt(s, r.session_id, r.user_input)
    IN IF r.cont
       THEN handle_conversation_continuation(s, p, o)
       ELSE IF AnalyzeMultiturn(r.user_input).needs_more_info
            THEN handle_multiturn_flow(s, p)
            ELSE IF IsLongRunningTask(prompt)
                 THEN execute_long_task([s EXCEPT !.run[p].prompt = prompt,
                                                  !.run[p].caller = "main"], p, 1, o)
                 ELSE execute_short_task(s, p, prompt, "main", o)

\* execute_async without its step 2: the first suspension yields no event
execute_start_silent(s, p, task_id, session_id, user_input, cont) ==
    LET s1 == create_task(s, task_id, session_id)
    IN [s1 EXCEPT !.running_tasks[task_id] =
                     [present |-> TRUE, cancelled |-> FALSE, session_id |-> session_id],
                  !.run[p] = [IdleRun EXCEPT !.pc = "y_started", !.task_id = task_id,
                                             !.session_id = session_id,
                                             !.user_input = user_input, !.cont = cont,
                                             !.stage = s.conversation_states[session_id].stage,
                                             !.turns = Len(s.conversation_history[session_id])],
                  !.nCalls = s.nCalls + 1]

\* execute_async up to its first yield: create_task, running_tasks, started
execute_start(s, p, task_id, session_id, user_input, cont) ==
    LET s1 == create_task(s, task_id, session_id)
        s2 == [s1 EXCEPT !.running_tasks[task_id] =
                   [present |-> TRUE, cancelled |-> FALSE, session_id |-> session_id],
                 !.run[p] = [IdleRun EXCEPT !.pc = "y_started", !.task_id = task_id,
                                            !.session_id = session_id,
                                            !.user_input = user_input, !.cont = cont,
                                            !.stage = s.conversation_states[session_id].stage,
                                            !.turns = Len(s.conversation_history[session_id])],
                 !.nCalls = s.nCalls + 1]
    IN emit(s2, p, StatusEvent("working", FALSE, 0))

\* the record of one cancel_async call: the event it yielded ("raised": the
\* KeyError of running_tasks[task_id]["session_id"] when the entry is gone)
CancelRecord(s, s1, task_id, tracked) ==
    [task_id |-> task_id,
     event |-> IF tracked
               THEN IF s1.running_tasks[task_id].present THEN "cancelled" ELSE "raised"
               ELSE "error",
     tracked |-> s.running_tasks[task_id].present,
     before |-> s.tasks[task_id],
     after |-> s1.tasks[task_id],
     stage |-> IF s.task_metadata[task_id] = NoSession THEN "idle"
               ELSE s.conversation_states[s.task_metadata[task_id]].stage,
     changed |-> \/ s1.tasks # s.tasks
                 \/ s1.task_history # s.task_history
                 \/ s1.task_metadata # s.task_metadata
                 \/ s1.running_tasks # s.running_tasks]

\* the cancel branch of cancel_async: the flag, then the recorded state
cancel_branch(s, task_id) ==
    update_task_status(
        [s EXCEPT !.running_tasks[task_id].cancelled = TRUE,
                  !.cancelAccepted = @ \cup {task_id},
                  !.run = [p \in DOMAIN s.run |->
                             IF s.run[p].task_id = task_id /\ s.run[p].cancel_at = 0
                             THEN [s.run[p] EXCEPT !.cancel_at = Len(s.out[p])]
                             ELSE s.run[p]]],
        task_id, "cancelled")

\* cancel_async without the test "task_id in self.running_tasks": the
\* cancel branch runs for every task id
cancel_async_unguarded(s, task_id) ==
    LET s1 == cancel_branch(s, task_id)
    IN [s1 EXCEPT !.lastCancel = CancelRecord(s, s1, task_id, TRUE),
                  !.nCancels = s.nCancels + 1]

\* cancel_async
cancel_async(s, task_id) ==
    LET tracked == s.running_tasks[task_id].present
        s1 == IF tracked THEN cancel_branch(s, task_id) ELSE s
    IN [s1 EXCEPT !.lastCancel = CancelRecord(s, s1, task_id, tracked),
                  !.nCancels = s.nCancels + 1]

\* -------------------------------------------------------------- actions
\* what the Responder does when called: it returns a text or raises; its
\* native stream can also end
Raise == [kind |-> "raise", text |-> <<>>]
EndOfStream == [kind |-> "end", text |-> <<>>]
Outcomes == {[kind |-> "return", text |-> t] : t \in Results} \cup {Raise}
StreamOutcomes == Outcomes \cup {EndOfStream}

\* the inputs a caller sends
Inputs == {HelpLong, PlainInput, LongInput, YesInput}
ConvInputs == {HelpLong, PlainInput, LongInput, YesInput, NoInput, MaybeInput}

\* the inputs of a caller who follows the clarification flow: any request
\* to start with, a reply to each question, an answer to the confirmation
Stages == {"idle", "collecting_info", "confirmation"}
AnalyzeInputs == {HelpShort, BriefInput, PlainInput, HelpLong, HelpNine, HelpTen,
                  LongInput, KeywordBrief}
InfoReplies == {PlainInput, NoInput}
ConfirmReplies == {YesInput, <<"y">>, <<"proceed">>, <<"ok">>, <<"confirm">>,
                   <<"queren">>, NoInput, <<"n">>, <<"cancel">>, <<"stop">>,
                   <<"quxiao">>, MaybeInput}
FlowInputs == [st \in Stages |->
                 CASE st = "idle" -> AnalyzeInputs
                   [] st = "collecting_info" -> InfoReplies
                   [] OTHER -> ConfirmReplies]

\* the turns and limits of the direct calls on the session manager
TurnInputs == {PlainInput, HelpShort}
Limits == 0..MaxLimit

\* Task and session ids are interchangeable: a caller takes a fresh id in
\* the order of TaskOrder and SessionOrder, and a new generator the first
\* free slot.
TaskOrder == <<"t1", "t2">>
SessionOrder == <<"s1", "s2">>
UsedTask(t) == tasks[t] # NoTask \/ (lastCancel.task_id = t)
UsedSession(sid) ==
    \/ sessions[sid]
    \/ \E t \in Tasks : task_metadata[t] = sid
    \/ \E p \in Procs : run[p].session_id = sid
MayUseTask(t) == \A k \in 1..Len(TaskOrder) :
    TaskOrder[k] = t => \A j \in 1..(k - 1) : UsedTask(TaskOrder[j])
MayUseSession(sid) == \A k \in 1..Len(SessionOrder) :
    SessionOrder[k] = sid => \A j \in 1..(k - 1) : UsedSession(SessionOrder[j])

\* the caller sends an input of I for the stage its session is in.
\* The call budget: at most maxCalls calls of execute_async; beyond that
\* (up to MaxConvCalls) only the next turn of a clarification flow, sent by
\* a single caller that has used the first task and session only and
\* waits for the end of each stream
ExecStart(p, task_id, session_id, user_input, cont, I, maxCalls) ==
    /\ user_input \in I[conversation_states[session_id].stage]
    /\ \/ nCalls < maxCalls
       \/ /\ nCalls < MaxConvCalls
          /\ conversation_states[session_id] # NoConv
          /\ \A q \in Procs : run[q].pc = "idle"
          /\ \A k \in 2..Len(TaskOrder) : ~UsedTask(TaskOrder[k])
          /\ \A k \in 2..Len(SessionOrder) : ~UsedSession(SessionOrder[k])
    /\ run[p].pc = "idle"
    /\ \A q \in Procs : q < p => run[q].pc # "idle"
    /\ MayUseTask(task_id)
    /\ MayUseSession(session_id)
    /\ Set(execute_start(S, p, task_id, session_id, user_input, cont))

Dispatch(p) ==
    /\ run[p].pc = "y_started"
    /\ \E o \in StreamOutcomes : Set(execute_dispatch(S, p, o))

ScriptStatus(p) ==
    /\ run[p].pc = "c_msg"
    /\ Set(yield_outer(S, p, StatusEvent(run[p].next_state,
                                         run[p].next_state = "cancelled", 0), "c_status"))

ScriptEnd(p) ==
    /\ run[p].pc = "c_status"
    /\ Set(script_end(S, p))

ConfirmGreat(p) ==
    /\ run[p].pc = "conf_status"
    /\ Set(yield_outer(S, p, MessageEvent("great"), "conf_msg"))

ConfirmExecute(p) ==
    /\ run[p].pc = "conf_msg"
    /\ \E o \in StreamOutcomes :
          Set(execute_short_task(S, p, run[p].prompt, "conf", o))

LongStepMessage(p) ==
    /\ run[p].pc = "long_status"
    /\ Set(yield_outer(S, p, MessageEvent("step"), "long_msg"))

LongNext(p) ==
    /\ run[p].pc = "long_msg"
    /\ \E o \in Outcomes : Set(execute_long_task(S, p, run[p].i + 1, o))

LongDone(p) ==
    /\ run[p].pc = "long_result"
    /\ Set(step8(S, p))

ResponderReturns(p) ==
    /\ run[p].pc = "in_executor"
    /\ \E result \in Results :
          Set(yield_outer(
                save_conversation_turn([S EXCEPT !.run[p].responder = "returned"],
                                       run[p].session_id, run[p].prompt, result),
                p, MessageEvent("result"), "short_result"))

ResponderRaises(p) ==
    /\ run[p].pc = "in_executor"
    /\ Set(except_exception([S EXCEPT !.run[p].responder = "raised"], p))

ShortDone(p) ==
    /\ run[p].pc = "short_result"
    /\ Set(after_short(S, p))

StreamNext(p) ==
    /\ run[p].pc = "stream_chunk"
    /\ \E o \in StreamOutcomes : Set(stream_native(S, p, o))

SimulatedStreamNext(p) ==
    /\ run[p].pc = "sim_chunk"
    /\ Set(stream_simulated(S, p))

Finish(p) ==
    /\ run[p].pc = "y_final"
    /\ Set(finally(S, p))

Cancel(task_id) ==
    /\ nCancels < MaxCancels
    /\ MayUseTask(task_id)
    /\ Set(cancel_async(S, task_id))

\* the next-state relation over the generators P, the ids T and Sid and
\* the inputs I[stage] a caller sends to a session in that stage, with at
\* most maxCalls calls of execute_async
Staged(P, T, Sid, I, maxCalls) ==
    \/ \E p \in P, t \in T, sid \in Sid, inp \in UNION {I[st] : st \in Stages},
          cont \in BOOLEAN :
          ExecStart(p, t, sid, inp, cont, I, maxCalls)
    \/ \E p \in P : Dispatch(p)
    \/ \E p \in P : ScriptStatus(p)
    \/ \E p \in P : ScriptEnd(p)
    \/ \E p \in P : ConfirmGreat(p)
    \/ \E p \in P : ConfirmExecute(p)
    \/ \E p \in P : LongStepMessage(p)
    \/ \E p \in P : LongNext(p)
    \/ \E p \in P : LongDone(p)
    \/ \E p \in P : ResponderReturns(p)
    \/ \E p \in P : ResponderRaises(p)
    \/ \E p \in P : ShortDone(p)
    \/ \E p \in P : StreamNext(p)
    \/ \E p \in P : SimulatedStreamNext(p)
    \/ \E p \in P : Finish(p)
    \/ \E t \in T : Cancel(t)

\* the same with one set of inputs I for every stage
Scoped(P, T, Sid, I, maxCalls) ==
    Staged(P, T, Sid, [st \in Stages |-> I], maxCalls)

\* concurrent calls on two tasks and two sessions
Next == Scoped(Procs, Tasks, SessionIds, Inputs, MaxCalls)

\* one caller walking one session through a clarification flow
NextConv == Scoped({1}, {"t1"}, {"s1"}, ConvInputs, MaxConvCalls)

\* two callers, each sending a request and then following its flow
PairInputs == [st \in Stages |->
                 CASE st = "idle" -> {HelpLong, LongInput}
                   [] st = "collecting_info" -> {PlainInput}
                   [] OTHER -> {YesInput}]
NextPair == Staged(Procs, Tasks, SessionIds, PairInputs, MaxCalls)

\* one caller: one request of any shape, then the turns of its flow
NextFlow == Staged({1}, {"t1"}, {"s1"}, FlowInputs, 1)

\* direct calls of SessionManager.save_conversation_turn and
\* get_conversation_history, as the session tests make them
SaveTurn(session_id, user_input, agent_response) ==
    /\ Len(conversation_history[session_id]) < MaxTurns
    /\ Set(save_conversation_turn(S, session_id, user_input, agent_response))

GetHistory(session_id, limit) ==
    /\ limit \in Limits
    /\ Set([S EXCEPT !.lastQuery =
                [session_id |-> session_id, limit |-> limit,
                 result |-> get_conversation_history(S, session_id, limit)]])

NextSession ==
    \/ \E sid \in {"s1"}, u \in TurnInputs : SaveTurn(sid, u, ResultText)
    \/ \E sid \in {"s1"}, limit \in Limits : GetHistory(sid, limit)

Init ==
    /\ tasks = [t \in Tasks |-> NoTask]
    /\ task_history = [t \in Tasks |-> <<>>]
    /\ task_metadata = [t \in Tasks |-> NoSession]
    /\ running_tasks = [t \in Tasks |-> NoRunning]
    /\ sessions = [s \in SessionIds |-> FALSE]
    /\ conversation_history = [s \in SessionIds |-> <<>>]
    /\ conversation_states = [s \in SessionIds |-> NoConv]
    /\ enable_streaming \in BOOLEAN
    /\ has_stream \in BOOLEAN
    /\ (~enable_streaming => ~has_stream)
    /\ run = [p \in Procs |-> IdleRun]
    /\ out = [p \in Procs |-> <<>>]
    /\ lastCancel = NoCancel
    /\ cancelAccepted = {}
    /\ nCalls = 0
    /\ nCancels = 0
    /\ lastQuery = NoQuery

Spec == Init /\ [][Next]_vars
SpecConv == Init /\ [][NextConv]_vars
SpecFlow == Init /\ [][NextFlow]_vars
SpecPair == Init /\ [][NextPair]_vars
SpecSession == Init /\ [][NextSession]_vars

\* ---------------------------------------------------------------- claims
Last(q) == q[Len(q)]
StartedEvent == StatusEvent("working", FALSE, 0)
CompletedEvent == StatusEvent("completed", TRUE, 0)
CancelledEvent == StatusEvent("cancelled", TRUE, 0)
Occurrences(q, ev) == Cardinality({k \in 1..Len(q) : q[k] = ev})
\* the step in which the stream of generator p ends
StreamEnds(p) == run[p].pc # "idle" /\ run'[p].pc = "idle"
\* the step in which generator p starts a call of execute_async
CallStarts(p) == run[p].pc = "idle" /\ run'[p].pc = "y_started"
\* the progress values carried by the status events of a stream, in order
ProgressValues(q) ==
    LET withProgress == SelectSeq(q, LAMBDA ev : ev.progress > 0)
    IN [k \in 1..Len(withProgress) |-> withProgress[k].progress]

\* C1: once the recorded state of a task is completed, failed or cancelled,
\* no later update_task_status changes it.
C1_TerminalStateIsFinal ==
    [][\A t \in Tasks : tasks[t] \in TerminalStates => tasks'[t] = tasks[t]]_vars

\* C2: create_task at the start of execute_async leaves an existing record
\* unchanged: its recorded state, its status history and its metadata.
C2_CreateIsIdempotent ==
    [][\A p \in Procs :
         (CallStarts(p) /\ tasks[run'[p].task_id] # NoTask) =>
             /\ tasks'[run'[p].task_id] = tasks[run'[p].task_id]
             /\ task_history'[run'[p].task_id] = task_history[run'[p].task_id]
             /\ task_metadata'[run'[p].task_id] = task_metadata[run'[p].task_id]]_vars

\* C3: while the cancel flag of a task is set and its recorded state is
\* cancelled, no step records completed or failed for it or yields a
\* completed event for it.
C3_CancelTakesPrecedence ==
    [][\A t \in Tasks :
         (running_tasks[t].cancelled /\ tasks[t] = "cancelled") =>
             /\ tasks'[t] \notin {"completed", "failed"}
             /\ \A p \in Procs :
                  (run[p].task_id = t /\ Len(out'[p]) > Len(out[p])) =>
                      Last(out'[p]) # CompletedEvent]_vars

\* C4: cancel_async on a created task whose recorded state is not terminal
\* and that is running or waits for the next turn of a clarification flow
\* records cancelled and yields the cancellation acknowledgement.
C4_CancelOfNonTerminalTask ==
    (/\ lastCancel.task_id # NoTask
     /\ lastCancel.before \in {"submitted", "working"}
     /\ (lastCancel.tracked \/ lastCancel.stage # "idle")) =>
        (lastCancel.after = "cancelled" /\ lastCancel.event = "cancelled")

\* C5: cancel_async on a task whose recorded state is terminal yields the
\* not-found/invalid-state error and leaves the recorded state unchanged.
C5_CancelOfTerminalTask ==
    (lastCancel.task_id # NoTask /\ lastCancel.before \in TerminalStates) =>
        (lastCancel.event = "error" /\ lastCancel.after = lastCancel.before)

\* C6: cancel_async never raises; for a task id that is not tracked (never
\* created, or not running any more) it yields the error event, no
\* cancelled event, and creates or changes no task record.
C6_CancelNeverRaises ==
    /\ lastCancel.event # "raised"
    /\ (lastCancel.task_id # NoTask /\ ~lastCancel.tracked) =>
          (lastCancel.event = "error" /\ ~lastCancel.changed
           /\ lastCancel.after = lastCancel.before)

\* C6 witness: a cancel of a task id that was never created has yielded
\* the error event.
C6_Witness ==
    /\ lastCancel.task_id # NoTask
    /\ ~lastCancel.tracked
    /\ lastCancel.before = NoTask
    /\ lastCancel.event = "error"
    /\ tasks[lastCancel.task_id] = NoTask

\* C7: a long-path or short-path stream whose task was cancelled when only
\* the started event had been yielded consists, when it ends, of the
\* started event and exactly one terminal cancelled event.
C7_CancelBeforeProgress ==
    [][\A p \in Procs :
         (StreamEnds(p) /\ run[p].cancel_at = 1 /\ run[p].caller = "main") =>
             out[p] = <<StartedEvent, CancelledEvent>>]_vars

\* C8: a stream of the long path, the short path or the execution after an
\* affirmative confirmation in which the Responder returned and during
\* which no cancel was accepted ends with the recorded state completed and
\* with exactly one completed event, its last.
C8_SuccessCompletes ==
    [][\A p \in Procs :
         (/\ StreamEnds(p)
          /\ run[p].responder = "returned"
          /\ run[p].caller \in {"main", "conf"}
          /\ run[p].cancel_at = 0) =>
             /\ tasks'[run[p].task_id] = "completed"
             /\ Last(out[p]) = CompletedEvent
             /\ Occurrences(out[p], CompletedEvent) = 1]_vars

\* C9: in the step in which the Responder raises, the recorded state
\* becomes failed and the error event is yielded, the only one of the
\* stream; the next step of the generator ends the stream.
C9_ResponderFailureIsCaught ==
    [][\A p \in Procs :
         /\ (run[p].responder # "raised" /\ run'[p].responder = "raised") =>
               /\ tasks'[run[p].task_id] = "failed"
               /\ out'[p] = Append(out[p], ErrorEvent)
               /\ Occurrences(out'[p], ErrorEvent) = 1
               /\ run'[p].pc = "y_final"
         /\ (run[p].responder = "raised"
             /\ (run'[p].pc # run[p].pc \/ out'[p] # out[p])) => StreamEnds(p)]_vars

\* C9 witness: the Responder has raised, the task is recorded failed and
\* the error event is the last event of the stream.
C9_Witness ==
    \E p \in Procs :
        /\ run[p].responder = "raised"
        /\ run[p].pc = "y_final"
        /\ tasks[run[p].task_id] = "failed"
        /\ Last(out[p]) = ErrorEvent

\* C10: the progress values of a stream without an accepted cancel never
\* decrease, and when the completed event follows progress values the last
\* of them is 1.0 (100 percent).
C10_ProgressReachesOne ==
    \A p \in Procs :
        run[p].cancel_at = 0 =>
            LET pv == ProgressValues(out[p])
            IN /\ \A k \in 1..(Len(pv) - 1) : pv[k] <= pv[k + 1]
               /\ (out[p] # <<>> /\ Last(out[p]) = CompletedEvent /\ pv # <<>>) =>
                     Last(pv) = 100

\* ------------------------------------------------- claims C11 to C20
\* the step in which generator p leaves its started event: steps 3 to 7
Dispatches(p) == run[p].pc = "y_started" /\ run'[p].pc # "y_started"
\* ... and in which analyze is called: the task is not cancelled, and the
\* call is not a continuation or its session has no conversation state
AnalysisRuns(p) ==
    /\ Dispatches(p)
    /\ ~running_tasks[run[p].task_id].cancelled
    /\ (~run[p].cont \/ conversation_states[run[p].session_id].stage = "idle")
\* after the step, generator p is in the clarification branch
Clarifies(p) == run'[p].pc = "c_msg" /\ run'[p].tail \in {"set_flow", "set_new"}
\* the step in which generator p ends a stream that asked for clarification
FlowStarts(p) ==
    /\ StreamEnds(p)
    /\ run[p].pc = "c_status"
    /\ run[p].tail \in {"set_flow", "set_new"}
\* the inputs that contain "help" once lower-cased
MentionsHelp == {HelpShort, HelpLong, HelpNine, HelpTen}
ClarificationEvents ==
    <<StartedEvent, MessageEvent("clarification"), StatusEvent("working", FALSE, 0)>>

\* C11: for the input "help", analyze reports that clarification is needed
\* with required_info = [topic, specific_question], and the conversation
\* state the flow saves has current_question = topic.
C11_HelpAsksTopic ==
    [][\A p \in Procs :
         /\ (AnalysisRuns(p) /\ run[p].user_input = HelpShort) => Clarifies(p)
         /\ (FlowStarts(p) /\ run[p].user_input = HelpShort) =>
               /\ conversation_states'[run[p].session_id].required_info
                     = <<"topic", "specific_question">>
               /\ conversation_states'[run[p].session_id].current_question = "topic"]_vars

\* C11 as amended: for the input "help" (one word), analyze reports that
\* clarification is needed with required_info = [specific_goal, context,
\* preferences], and the saved conversation state has current_question =
\* specific_goal.
C11_HelpAsksSpecificGoal ==
    [][\A p \in Procs :
         /\ (AnalysisRuns(p) /\ run[p].user_input = HelpShort) => Clarifies(p)
         /\ (FlowStarts(p) /\ run[p].user_input = HelpShort) =>
               /\ conversation_states'[run[p].session_id].required_info
                     = <<"specific_goal", "context", "preferences">>
               /\ conversation_states'[run[p].session_id].current_question
                     = "specific_goal"]_vars

\* C11 witness: the call with the input "help" has yielded the
\* clarification question and its working status.
C11_Witness ==
    \E p \in Procs :
        /\ run[p].user_input = HelpShort
        /\ ~run[p].cont
        /\ run[p].pc = "c_status"
        /\ run[p].tail = "set_flow"
        /\ out[p] = ClarificationEvents

\* C12: analyze reports that clarification is needed exactly when the input
\* has fewer than 5 words, or contains "help" and has fewer than 10 words,
\* whatever the rest of the state is.
C12_AnalyzeIsThresholdTest ==
    [][\A p \in Procs :
         AnalysisRuns(p) =>
             (Clarifies(p) <=>
                 \/ Len(run[p].user_input) < 5
                 \/ (run[p].user_input \in MentionsHelp
                     /\ Len(run[p].user_input) < 10))]_vars

\* C12 witness: a nine-word input that contains "help" is being clarified.
C12_Witness ==
    \E p \in Procs :
        /\ run[p].user_input = HelpNine
        /\ run[p].pc = "c_msg"
        /\ run[p].tail = "set_flow"

\* C13: a call on a session without conversation state whose input needs
\* clarification, with no cancel accepted, ends its stream having yielded
\* the started event, the clarification prompt and a non-final working
\* status; the session's state is then collecting_info with empty
\* collected_info and current_question the first entry of required_info,
\* the Responder was not invoked and the recorded state is not terminal.
C13_ClarificationStartsFlow ==
    [][\A p \in Procs :
         (/\ FlowStarts(p)
          /\ conversation_states[run[p].session_id].stage = "idle"
          /\ run[p].cancel_at = 0) =>
             LET conv == conversation_states'[run[p].session_id]
             IN /\ out[p] = ClarificationEvents
                /\ conv.stage = "collecting_info"
                /\ conv.collected_info = <<>>
                /\ conv.required_info # <<>>
                /\ conv.current_question = conv.required_info[1]
                /\ run[p].responder = "none"
                /\ tasks'[run[p].task_id] \notin TerminalStates]_vars

\* C13 witness: the first call has ended and left its session in
\* collecting_info with nothing collected and the task submitted.
C13_Witness ==
    /\ nCalls = 1
    /\ nCancels = 0
    /\ run[1].pc = "idle"
    /\ conversation_states["s1"].stage = "collecting_info"
    /\ conversation_states["s1"].collected_info = <<>>
    /\ tasks["t1"] = "submitted"

\* the step in which a continuation call reaches the handler of a session
\* in the given stage
Continues(p, stage) ==
    /\ Dispatches(p)
    /\ run[p].cont
    /\ conversation_states[run[p].session_id].stage = stage
\* the value collected under a field
ValueOf(d, field) == (CHOOSE e \in {d[k] : k \in 1..Len(d)} : e.key = field).value
RECURSIVE SummaryOf(_, _)
\* one "- field: value" line per entry of required_info, in its order
SummaryOf(required_info, d) ==
    IF required_info = <<>> THEN <<>>
    ELSE <<"-", Head(required_info)>> \o ValueOf(d, Head(required_info))
         \o SummaryOf(Tail(required_info), d)

\* C14: in collecting_info with required_info = [f1..fn] and k-1 replies
\* collected, the handler stores the reply under fk with its exact text;
\* if k < n, current_question becomes f(k+1) and the stage stays
\* collecting_info; if k = n, the stage becomes confirmation and (the task
\* not being cancelled) the message yielded is the summary of every
\* required_info entry with its value, in required_info order.
C14_RepliesCollectedInOrder ==
    [][\A p \in Procs :
         Continues(p, "collecting_info") =>
             LET conv == conversation_states[run[p].session_id]
                 after == conversation_states'[run[p].session_id]
                 n == Len(conv.required_info)
                 k == Len(conv.collected_info) + 1
             IN /\ k <= n
                /\ after.collected_info =
                      Append(conv.collected_info,
                             [key |-> conv.required_info[k], value |-> run[p].user_input])
                /\ after.required_info = conv.required_info
                /\ k < n => /\ after.stage = "collecting_info"
                            /\ after.current_question = conv.required_info[k + 1]
                /\ k = n => /\ after.stage = "confirmation"
                            /\ ~running_tasks[run[p].task_id].cancelled =>
                                  out'[p] = Append(out[p],
                                      SummaryEvent(SummaryOf(conv.required_info,
                                                             after.collected_info)))]_vars

\* C14 witness: two different replies have been collected under topic and
\* specific_question and the summary has been yielded.
C14_Witness ==
    \E p \in Procs :
        LET conv == conversation_states[run[p].session_id]
        IN /\ run[p].pc = "c_msg"
           /\ run[p].session_id # NoSession
           /\ conv.stage = "confirmation"
           /\ conv.collected_info =
                 <<[key |-> "topic", value |-> PlainInput],
                   [key |-> "specific_question", value |-> NoInput]>>
           /\ Last(out[p]) = SummaryEvent(<<"-", "topic">> \o PlainInput
                                          \o <<"-", "specific_question">> \o NoInput)

\* the replies of ConfirmReplies that, trimmed and lower-cased, are in the
\* vocabularies {yes, y, proceed, ok, confirm} and {no, n, cancel, stop}
ClaimedAffirmative == {YesInput, <<"y">>, <<"proceed">>, <<"ok">>, <<"confirm">>}
ClaimedNegative == {NoInput, <<"n">>, <<"cancel">>, <<"stop">>}
\* ... and in the vocabularies with the two Chinese words of the code
\* (written queren and quxiao here) and without "confirm"
BilingualAffirmative == {YesInput, <<"y">>, <<"proceed">>, <<"ok">>, <<"queren">>}
BilingualNegative == {NoInput, <<"n">>, <<"cancel">>, <<"stop">>, <<"quxiao">>}
\* the step that ends the stream of a continuation call made in stage
\* confirmation during which no cancel was accepted
ConfirmationReplyEnds(p) ==
    /\ StreamEnds(p)
    /\ run[p].cont
    /\ run[p].stage = "confirmation"
    /\ run[p].cancel_at = 0
RepromptEvents ==
    <<StartedEvent, MessageEvent("reprompt"), StatusEvent("working", FALSE, 0)>>

\* C15: in stage confirmation, a reply of {yes, y, proceed, ok, confirm}
\* (case-insensitive) makes the flow proceed to execution: when the stream
\* ends the Responder has been invoked and the stage is no longer
\* confirmation.
C15_AffirmativeProceeds ==
    [][\A p \in Procs :
         (ConfirmationReplyEnds(p) /\ run[p].user_input \in ClaimedAffirmative) =>
             /\ run[p].responder # "none"
             /\ conversation_states'[run[p].session_id].stage # "confirmation"]_vars

\* C16: in stage confirmation, a reply of {no, n, cancel, stop} aborts the
\* flow: the stream consists of the started event, the abort message and a
\* final cancelled event, the Responder is not invoked and the session's
\* conversation state is cleared.
C16_NegativeAborts ==
    [][\A p \in Procs :
         (ConfirmationReplyEnds(p) /\ run[p].user_input \in ClaimedNegative) =>
             /\ out[p] = <<StartedEvent, MessageEvent("aborted"), CancelledEvent>>
             /\ run[p].responder = "none"
             /\ conversation_states'[run[p].session_id] = NoConv]_vars

\* C16 witness: the reply "no" in stage confirmation has yielded the final
\* cancelled event.
C16_Witness ==
    \E p \in Procs :
        /\ run[p].cont
        /\ run[p].stage = "confirmation"
        /\ run[p].user_input = NoInput
        /\ run[p].pc = "c_status"
        /\ Last(out[p]) = CancelledEvent

C18_ActiveFlowContinues ==
    [][\A p \in Procs :
         (/\ Dispatches(p)
          /\ ~running_tasks[run[p].task_id].cancelled
          /\ conversation_states[run[p].session_id].stage
                \in {"collecting_info", "confirmation"}) =>
             /\ ~Clarifies(p)
             /\ run'[p].caller # "main"]_vars

\* the k most recently appended turns of a history, oldest first (all of
\* them when there are fewer than k)
MostRecent(h, k) ==
    LET m == IF k < Len(h) THEN k ELSE Len(h)
    IN SubSeq(h, Len(h) - m + 1, Len(h))
\* the step is a call of get_conversation_history
Queries == lastQuery' # lastQuery
\* a save appends one turn and keeps the turns before it
SavesAppend ==
    \A sid \in SessionIds :
        conversation_history'[sid] # conversation_history[sid] =>
            /\ Len(conversation_history'[sid]) = Len(conversation_history[sid]) + 1
            /\ SubSeq(conversation_history'[sid], 1, Len(conversation_history[sid]))
                  = conversation_history[sid]

\* C19: get_conversation_history(session_id, limit) returns the
\* min(limit, n) most recently appended turns, oldest first, for every
\* limit >= 0 and every history length n; a saved turn is appended to the
\* history.
C19_RecentContext ==
    [][/\ SavesAppend
       /\ Queries =>
             lastQuery'.result =
                 MostRecent(conversation_history[lastQuery'.session_id],
                            lastQuery'.limit)]_vars

\* C19 as amended: the same for every limit >= 1; for limit = 0 the whole
\* history is returned.
C19_RecentContextPositiveLimit ==
    [][/\ SavesAppend
       /\ Queries =>
             LET h == conversation_history[lastQuery'.session_id]
             IN /\ lastQuery'.limit >= 1 =>
                      lastQuery'.result = MostRecent(h, lastQuery'.limit)
                /\ lastQuery'.limit = 0 => lastQuery'.result = h]_vars

\* C19 witness: a query with limit 2 on a history of three turns has
\* returned its last two turns, which differ.
C19_Witness ==
    /\ lastQuery.session_id = "s1"
    /\ lastQuery.limit = 2
    /\ Len(conversation_history["s1"]) = 3
    /\ lastQuery.result = SubSeq(conversation_history["s1"], 2, 3)
    /\ lastQuery.result[1] # lastQuery.result[2]

\* the step is one of generator p
StepOf(p) == run'[p].pc # run[p].pc \/ out'[p] # out[p]
\* the state with nothing in it but generator p, its task and its session
Alone(s, p) ==
    LET tid == s.run[p].task_id
        sid == s.run[p].session_id
    IN [s EXCEPT
          !.tasks = [t \in DOMAIN @ |-> IF t = tid THEN @[t] ELSE NoTask],
          !.task_history = [t \in DOMAIN @ |-> IF t = tid THEN @[t] ELSE <<>>],
          !.task_metadata = [t \in DOMAIN @ |-> IF t = tid THEN @[t] ELSE NoSession],
          !.running_tasks = [t \in DOMAIN @ |-> IF t = tid THEN @[t] ELSE NoRunning],
          !.sessions = [x \in DOMAIN @ |-> IF x = sid THEN @[x] ELSE FALSE],
          !.conversation_history = [x \in DOMAIN @ |-> IF x = sid THEN @[x] ELSE <<>>],
          !.conversation_states = [x \in DOMAIN @ |-> IF x = sid THEN @[x] ELSE NoConv],
          !.run = [q \in DOMAIN @ |-> IF q = p THEN @[q] ELSE IdleRun],
          !.out = [q \in DOMAIN @ |-> IF q = p THEN @[q] ELSE <<>>]]
\* what the next step of generator p can make of state s, for every
\* behaviour of the Responder
StepResults(s, p) ==
    LET r == s.run[p]
    IN CASE r.pc = "y_started" -> {execute_dispatch(s, p, o) : o \in StreamOutcomes}
         [] r.pc = "c_msg" ->
              {yield_outer(s, p, StatusEvent(r.next_state, r.next_state = "cancelled", 0),
                           "c_status")}
         [] r.pc = "c_status" -> {script_end(s, p)}
         [] r.pc = "conf_status" -> {yield_outer(s, p, MessageEvent("great"), "conf_msg")}
         [] r.pc = "conf_msg" ->
              {execute_short_task(s, p, r.prompt, "conf", o) : o \in StreamOutcomes}
         [] r.pc = "long_status" -> {yield_outer(s, p, MessageEvent("step"), "long_msg")}
         [] r.pc = "long_msg" -> {execute_long_task(s, p, r.i + 1, o) : o \in Outcomes}
         [] r.pc = "long_result" -> {step8(s, p)}
         [] r.pc = "in_executor" ->
              {yield_outer(save_conversation_turn([s EXCEPT !.run[p].responder = "returned"],
                                                  r.session_id, r.prompt, result),
                           p, MessageEvent("result"), "short_result") : result \in Results}
              \cup {except_exception([s EXCEPT !.run[p].responder = "raised"], p)}
         [] r.pc = "short_result" -> {after_short(s, p)}
         [] r.pc = "stream_chunk" -> {stream_native(s, p, o) : o \in StreamOutcomes}
         [] r.pc = "sim_chunk" -> {stream_simulated(s, p)}
         [] r.pc = "y_final" -> {finally(s, p)}
         [] OTHER -> {}
\* what a state holds for generator p and its session sid
Own(s, p, sid) ==
    <<s.conversation_history[sid], s.conversation_states[sid], s.run[p], s.out[p]>>
\* every other call in progress is on another session and another task
Independent(p) ==
    \A q \in Procs \ {p} :
        run[q].pc # "idle" =>
            /\ run[q].session_id # run[p].session_id
            /\ run[q].task_id # run[p].task_id

\* C20: a step changes the turn history and the conversation state of a
\* session only if it is a step of a generator called on that session, and
\* the record and the running entry of a task only if it is a cancel or a
\* step of a generator called on that task; and while the other calls in
\* progress are on other sessions (and tasks), each step of a generator
\* leaves its session's history and state, its position and its stream as
\* the same step does when the generator runs alone.
C20_SessionsAreIndependent ==
    [][/\ \A sid \in SessionIds :
            (\/ conversation_history'[sid] # conversation_history[sid]
             \/ conversation_states'[sid] # conversation_states[sid]) =>
                \E p \in Procs : run[p].session_id = sid /\ StepOf(p)
       /\ \A t \in Tasks :
            (tasks'[t] # tasks[t] \/ running_tasks'[t] # running_tasks[t]) =>
                \/ nCancels' # nCancels
                \/ \E p \in Procs :
                      (run[p].task_id = t \/ run'[p].task_id = t) /\ StepOf(p)
       /\ \A p \in Procs :
            (run[p].pc # "idle" /\ StepOf(p) /\ Independent(p)) =>
                LET sid == run[p].session_id
                IN <<conversation_history'[sid], conversation_states'[sid],
                     run'[p], out'[p]>>
                     \in {Own(t, p, sid) : t \in StepResults(Alone(S, p), p)}]_vars

\* C20 witness: two calls on different sessions and tasks are in progress
\* and each session holds a turn.
C20_Witness ==
    /\ run[1].pc \notin {"idle", "y_started"}
    /\ run[2].pc \notin {"idle", "y_started"}
    /\ run[1].session_id # run[2].session_id
    /\ run[1].task_id # run[2].task_id
    /\ conversation_history[run[1].session_id] # <<>>
    /\ conversation_history[run[2].session_id] # <<>>

\* ------------------------------------------------- claims C21 to C30
\* the step in which generator p yields the event ev
Yields(p, ev) == out'[p] = Append(out[p], ev)

\* C21: once the cancel flag of a task is set, _is_task_cancelled returns
\* true for it in every later state.
C21_CancelFlagIsOneWay ==
    [][\A t \in Tasks :
         running_tasks[t].cancelled => running_tasks'[t].cancelled]_vars

\* C22: in the step in which a stream yields a terminal event, the recorded
\* state of its task is the matching terminal state: completed for a
\* completed event, cancelled for a cancelled event, failed for an error.
C22_TerminalEventMatchesRecord ==
    [][\A p \in Procs :
         /\ Yields(p, CompletedEvent) => tasks'[run[p].task_id] = "completed"
         /\ Yields(p, CancelledEvent) => tasks'[run[p].task_id] = "cancelled"
         /\ Yields(p, ErrorEvent) => tasks'[run[p].task_id] = "failed"]_vars

\* C23: when the stream of a call in which an affirmative or a negative
\* confirmation was processed ends, whatever the outcome of the execution,
\* the session has no conversation state; and a conversation state in
\* collecting_info or confirmation is removed by no other step.
C23_StateClearedWithTheFlow ==
    [][\A p \in Procs :
         LET sid == run[p].session_id
             processed == \/ run[p].pc \in {"conf_status", "conf_msg"}
                          \/ run[p].caller = "conf"
                          \/ run[p].tail = "pop"
         IN /\ (StreamEnds(p) /\ processed) => conversation_states'[sid] = NoConv
            /\ (/\ StepOf(p)
                /\ sid # NoSession
                /\ conversation_states[sid] # NoConv
                /\ conversation_states'[sid] = NoConv) =>
                   (StreamEnds(p) /\ processed)]_vars

\* C24: the stage of a session moves along idle -> collecting_info ->
\* confirmation -> idle only: no step takes it from confirmation to
\* collecting_info or from collecting_info to idle, and no step empties
\* the collected_info of an active flow.
C24_StageMovesForward ==
    [][\A sid \in SessionIds :
         LET before == conversation_states[sid]
             after == conversation_states'[sid]
         IN /\ before.stage = "idle" => after.stage \in {"idle", "collecting_info"}
            /\ before.stage = "collecting_info" =>
                  after.stage \in {"collecting_info", "confirmation"}
            /\ before.stage = "confirmation" => after.stage \in {"confirmation", "idle"}
            /\ (before.stage # "idle" /\ before.collected_info # <<>>) =>
                  (after.stage = "idle" \/ after.collected_info # <<>>)]_vars

\* the words of sub occur in text, adjacent and in order
Contains(text, sub) ==
    \E k \in 0..(Len(text) - Len(sub)) : SubSeq(text, k + 1, k + Len(sub)) = sub

\* C25: the conversation state stored when execute_async starts a
\* clarification flow holds the triggering user input as original_request;
\* and the prompt handed to the Responder after an affirmative confirmation
\* contains the original request and every collected value.
C25_FlowKeepsOriginalRequest ==
    [][\A p \in Procs :
         LET sid == run[p].session_id
             conv == conversation_states[sid]
         IN /\ FlowStarts(p) =>
                 conversation_states'[sid].original_request = run[p].user_input
            /\ (run[p].caller # "conf" /\ run'[p].caller = "conf") =>
                 /\ Contains(run'[p].prompt, conv.original_request)
                 /\ \A k \in 1..Len(conv.collected_info) :
                      Contains(run'[p].prompt, conv.collected_info[k].value)]_vars

\* generator p is in the long path
InLongPath(p) == run[p].pc \in {"long_status", "long_msg", "long_result"}
\* the step in which the long path of generator p reads the cancel flag:
\* at the head of an iteration of its loop, the first one when the call
\* is dispatched to the long path, and before the call of the Responder
LongCheck(p) ==
    /\ StepOf(p)
    /\ \/ run[p].pc = "long_msg"
       \/ /\ run[p].pc = "y_started"
          /\ ~run[p].cont
          /\ ~AnalyzeMultiturn(run[p].user_input).needs_more_info
          /\ IsLongRunningTask(
                build_contextual_prompt(manage_session_context(S, run[p].session_id),
                                        run[p].session_id, run[p].user_input))
\* the step in which generator p yields a progress checkpoint
YieldsCheckpoint(p) ==
    \E v \in 1..100 : Yields(p, StatusEvent("working", FALSE, v))

\* C26: the long path yields the checkpoints 0.2, 0.4, 0.7, 0.9 in this
\* order, all of them before the Responder is invoked; it reads the cancel
\* flag before each checkpoint and before the call of the Responder, and
\* when the flag is set at one of these reads the Responder is not invoked
\* and the long path yields no further checkpoint or message: the stream
\* ends there, with a final cancelled status or with no event at all.
C26_LongPathChecksCancel ==
    [][\A p \in Procs :
         LET flag == running_tasks[run[p].task_id].cancelled
         IN /\ InLongPath(p) =>
                 /\ ProgressValues(out[p]) \in
                       {SubSeq(<<20, 40, 70, 90>>, 1, k) : k \in 1..4}
                 /\ run[p].responder # "none" =>
                       ProgressValues(out[p]) = <<20, 40, 70, 90>>
            /\ YieldsCheckpoint(p) => (LongCheck(p) /\ ~flag)
            /\ (LongCheck(p) /\ run'[p].responder # "none") => ~flag
            /\ (LongCheck(p) /\ flag) =>
                 /\ run'[p].responder = "none"
                 /\ \/ run'[p].pc = "idle"
                    \/ run'[p].pc = "y_final" /\ Yields(p, CancelledEvent)
            /\ (InLongPath(p) /\ flag /\ StepOf(p)) =>
                 /\ \/ run'[p].pc = "idle"
                    \/ run'[p].pc = "y_final" /\ Yields(p, CancelledEvent)
            /\ run[p].pc = "y_final" => run'[p].pc \in {"y_final", "idle"}]_vars

\* a long path that found the flag set at the head of its third iteration
C26_Witness ==
    \E p \in Procs :
        /\ run[p].pc = "y_final"
        /\ Last(out[p]) = CancelledEvent
        /\ ProgressValues(out[p]) = <<20, 40>>
        /\ run[p].responder = "none"
        /\ Len(out[p]) = 6

\* the step in which the short path of generator p calls the Responder
ShortPathInvokes(p) ==
    /\ run[p].pc \in {"y_started", "conf_msg"}
    /\ run[p].responder = "none"
    /\ run'[p].responder # "none"
    /\ run'[p].pc \notin {"long_status", "long_msg", "long_result"}

\* C27: the short path reads the cancel flag before it calls the Responder
\* and, when streaming, between fragments: it does not call the Responder
\* when the flag is set, and it yields no fragment once the flag is set.
C27_ShortPathChecksCancel ==
    [][\A p \in Procs :
         LET flag == running_tasks[run[p].task_id].cancelled
         IN /\ ShortPathInvokes(p) => ~flag
            /\ Yields(p, MessageEvent("chunk")) => ~flag]_vars

\* the step in which generator p ends a stream that yielded the final
\* completed status
Succeeds(p) == StreamEnds(p) /\ out[p] # <<>> /\ Last(out[p]) = CompletedEvent
\* the history of the session of generator p when the call was made
HistoryAtCall(p) ==
    SubSeq(conversation_history[run[p].session_id], 1, run[p].turns)

\* C28: a successful execute_async appends exactly one exchange to the
\* history of its session: the prompt with the final output of the
\* Responder.
C28_OneExchangePerSuccess ==
    [][\A p \in Procs :
         Succeeds(p) =>
            \E result \in Results :
                conversation_history'[run[p].session_id] =
                    Append(HistoryAtCall(p),
                           [user_input |-> run[p].prompt, agent_response |-> result])]_vars

\* C29: an execute_async whose task is cancelled, also while the call of
\* the Responder is in flight, or whose Responder raises leaves the history
\* of its session as it was before the call.
C29_NoExchangeWithoutSuccess ==
    [][\A p \in Procs :
         (StreamEnds(p) /\ (run[p].cancel_at > 0 \/ run[p].responder = "raised")) =>
            conversation_history'[run[p].session_id] = HistoryAtCall(p)]_vars

RECURSIVE RunToEnd(_, _)
\* the states in which the stream of generator p can end when the consumer
\* drives it from state s to exhaustion and nothing else runs
RunToEnd(s, p) ==
    IF s.run[p].pc = "idle" THEN {s}
    ELSE UNION {RunToEnd(t, p) : t \in StepResults(s, p)}
RECURSIVE Interleavings(_)
\* the states in which the streams in progress in state s can all have
\* ended, their steps taken in any order
Interleavings(s) ==
    IF \A p \in Procs : s.run[p].pc = "idle" THEN {s}
    ELSE UNION {Interleavings(t) : t \in UNION {StepResults(s, p) : p \in Procs}}
\* the states in which two streams in progress in state s can have ended
\* when one is driven to its end before the other takes a step
OneAfterTheOther(s, p, q) ==
    UNION {RunToEnd(t, q) : t \in RunToEnd(s, p)}
      \cup UNION {RunToEnd(t, p) : t \in RunToEnd(s, q)}
\* the turn history and the conversation state of a session
SessionOf(s, sid) == <<s.conversation_history[sid], s.conversation_states[sid]>>
\* two calls on session sid have just been made, none has gone beyond its
\* started event, no cancel is pending and no text calls for the long path
ConcurrentCalls(p, q, sid) ==
    /\ p # q
    /\ run[p].pc = "y_started" /\ run[q].pc = "y_started"
    /\ run[p].session_id = sid /\ run[q].session_id = sid
    /\ ~running_tasks[run[p].task_id].cancelled
    /\ ~running_tasks[run[q].task_id].cancelled
    /\ ~IsLongRunningTask(ContextWords(conversation_history[sid])
                          \o run[p].user_input \o run[q].user_input)

\* C30: two concurrent calls of execute_async on the same session never
\* interleave their updates: however their steps are ordered, the history
\* and the conversation state the session ends with are those of running
\* the two calls one after the other, in one order or the other.
C30_SessionIsSingleWriter ==
    \A p, q \in Procs, sid \in SessionIds :
        ConcurrentCalls(p, q, sid) =>
            {SessionOf(t, sid) : t \in Interleavings(S)}
                \subseteq {SessionOf(t, sid) : t \in OneAfterTheOther(S, p, q)}

\* ------------------------------------------------- claims C31 to C39
\* the step in which execute_async classifies the request of generator p:
\* the call is not a continuation, asks for no clarification and is not
\* cancelled
Classifies(p) ==
    /\ Dispatches(p)
    /\ ~run[p].cont
    /\ ~AnalyzeMultiturn(run[p].user_input).needs_more_info
    /\ ~running_tasks[run[p].task_id].cancelled
\* state s with the history of session sid replaced by turns
WithHistory(s, sid, turns) == [s EXCEPT !.conversation_history[sid] = turns]

\* C31: the path a request takes, long or short, is the one the same user
\* input takes on a session whose history holds no turn: the classification
\* does not depend on the turns the session already holds.
C31_ClassificationIgnoresHistory ==
    [][\A p \in Procs :
         Classifies(p) =>
            \A o \in StreamOutcomes :
                (run'[p].pc = "long_status") <=>
                   (execute_dispatch(WithHistory(S, run[p].session_id, <<>>), p, o)
                        .run[p].pc = "long_status")]_vars

\* C32: a call whose input analyze reports as needing clarification yields
\* no long-path checkpoint and does not invoke the Responder, also when the
\* input holds a long-task keyword: its stream is the started event, the
\* clarification question and a working status, and nothing else.
C32_ClarificationBeforeClassification ==
    \A p \in Procs :
        (/\ run[p].pc # "idle"
         /\ ~run[p].cont \/ run[p].stage = "idle"
         /\ AnalyzeMultiturn(run[p].user_input).needs_more_info) =>
            /\ ProgressValues(out[p]) = <<>>
            /\ run[p].responder = "none"
            /\ run[p].pc \in {"y_started", "c_msg", "c_status"}
            /\ \E k \in 1..3 : out[p] = SubSeq(ClarificationEvents, 1, k)

\* a request that holds a long-task keyword has been asked for clarification
C32_Witness ==
    \E p \in Procs :
        /\ run[p].user_input = KeywordBrief
        /\ IsLongRunningTask(run[p].user_input)
        /\ run[p].pc = "c_status"
        /\ out[p] = ClarificationEvents

\* sequence a is an initial part of sequence b
IsPrefix(a, b) == Len(a) <= Len(b) /\ SubSeq(b, 1, Len(a)) = a

\* C33: a session exists once an execute_async on its id has been
\* dispatched, and no step destroys or resets it: a session that exists
\* still exists after every step, with all the turns it held, in the same
\* order, at the start of its history.
C33_SessionsAreKept ==
    [][/\ \A p \in Procs : Dispatches(p) => sessions'[run[p].session_id]
       /\ \A sid \in SessionIds :
            /\ ~sessions[sid] => conversation_history[sid] = <<>>
            /\ sessions[sid] =>
                 /\ sessions'[sid]
                 /\ IsPrefix(conversation_history[sid], conversation_history'[sid])]_vars

\* a later call on a session that held turns has been dispatched
C33_Witness ==
    \E p \in Procs :
        /\ run[p].pc \notin {"idle", "y_started"}
        /\ run[p].turns >= 2
        /\ Len(conversation_history[run[p].session_id]) >= run[p].turns

\* a final status or an error
IsTerminalEvent(ev) == ev.final \/ ev.type = "error"

\* C34: the stream of a call in progress starts with the started event,
\* the non-final working status yielded by the step that starts the call
\* and by no other step into a stream that is still empty; a terminal event
\* (completed, cancelled, error) is the last event of its stream: no event
\* precedes the started event and none follows a terminal one.
C34_StartedFirstTerminalLast ==
    [][\A p \in Procs :
         /\ run[p].pc # "idle" => (out[p] # <<>> /\ out[p][1] = StartedEvent)
         /\ CallStarts(p) => out'[p] = <<StartedEvent>>
         /\ (out[p] = <<>> /\ out'[p] # <<>>) => CallStarts(p)
         /\ \A k \in 1..(Len(out[p]) - 1) : ~IsTerminalEvent(out[p][k])
         /\ (out[p] # <<>> /\ IsTerminalEvent(Last(out[p]))) =>
               (out'[p] = out[p] \/ out'[p] = <<>>)]_vars

\* a long path has yielded its final completed status
C34_Witness ==
    \E p \in Procs :
        /\ run[p].pc = "y_final"
        /\ out[p][1] = StartedEvent
        /\ Last(out[p]) = CompletedEvent
        /\ ProgressValues(out[p]) = <<20, 40, 70, 90>>

\* the Responder call of generator p is in flight: awaited in the executor
\* or, for a native stream, between two fragments
InFlight(p) == run[p].pc \in {"in_executor", "stream_chunk"}

\* C35: a cancel accepted while the Responder call of a task is in flight
\* does not abort the call: the generator stays where it is. When the call
\* then returns, the cancel takes effect: the output is not yielded as a
\* message, the completed status is not yielded, the task is not recorded
\* as completed, and the stream ends.
C35_CancelIsCooperative ==
    [][\A p \in Procs :
         InFlight(p) =>
            /\ nCancels' # nCancels =>
                 /\ run'[p].pc = run[p].pc
                 /\ run'[p].responder = run[p].responder
                 /\ out'[p] = out[p]
            /\ (StepOf(p) /\ running_tasks[run[p].task_id].cancelled) =>
                 /\ \A ev \in {MessageEvent("result"), MessageEvent("chunk"),
                                CompletedEvent} : ~Yields(p, ev)
                 /\ tasks'[run[p].task_id] # "completed"
                 /\ run'[p].pc \in {"idle", "y_final"}]_vars

\* a cancel was accepted while the Responder call is awaited in the executor
C35_Witness ==
    \E p \in Procs :
        /\ run[p].pc = "in_executor"
        /\ run[p].cancel_at = 1
        /\ running_tasks[run[p].task_id].cancelled
        /\ tasks[run[p].task_id] = "cancelled"

\* the step in which generator p calls isek_team.run (every Responder call
\* but the native stream, which is an asynchronous iterator)
InvokesRun(p) ==
    /\ run[p].responder = "none"
    /\ run'[p].responder # "none"
    /\ run[p].pc = "long_msg" \/ ~(enable_streaming /\ has_stream)

\* C36: the call into the Responder does not block the control path: the
\* step that makes the call leaves the generator suspended with the call in
\* flight, on the long path as on the short path, so that steps of other
\* generators and cancel_async calls can run before the call returns.
C36_ResponderCallSuspends ==
    [][\A p \in Procs :
         InvokesRun(p) =>
            (run'[p].pc = "in_executor" /\ run'[p].responder = "invoked")]_vars

\* the number of replies a conversation state has collected
Replies(conv) == Len(conv.collected_info)

\* C37: a flow starts in collecting_info with n >= 1 required fields and no
\* reply collected; each reply handled by the collecting_info continuation
\* is one more reply collected; the stage is confirmation after the reply
\* that makes n of them and collecting_info after every reply before it.
C37_ConfirmationAfterNReplies ==
    [][\A p \in Procs :
         LET sid == run[p].session_id
             conv == conversation_states[sid]
             after == conversation_states'[sid]
             n == Len(conv.required_info)
         IN /\ FlowStarts(p) =>
                 /\ after.stage = "collecting_info"
                 /\ Replies(after) = 0
                 /\ Len(after.required_info) \in 1..3
            /\ Continues(p, "collecting_info") =>
                 /\ Replies(conv) < n
                 /\ Len(after.required_info) = n
                 /\ Replies(after) = Replies(conv) + 1
                 /\ Replies(after) = n => after.stage = "confirmation"
                 /\ Replies(after) < n => after.stage = "collecting_info"]_vars

\* a flow with three required fields has reached confirmation
C37_Witness ==
    \E sid \in SessionIds :
        /\ conversation_states[sid].stage = "confirmation"
        /\ Len(conversation_states[sid].required_info) = 3
        /\ Replies(conversation_states[sid]) = 3

\* the entries of a list
Entries(q) == {q[k] : k \in 1..Len(q)}

\* C38: every stored conversation state is well formed: the keys of
\* collected_info are entries of required_info; in collecting_info,
\* current_question is an entry of required_info that is not yet collected;
\* in confirmation, every entry of required_info is collected.
C38_ConversationStateWellFormed ==
    \A sid \in SessionIds :
        LET conv == conversation_states[sid]
        IN conv # NoConv =>
             /\ conv.stage \in {"collecting_info", "confirmation"}
             /\ DictKeys(conv.collected_info) \subseteq Entries(conv.required_info)
             /\ conv.stage = "collecting_info" =>
                   conv.current_question \in
                      Entries(conv.required_info) \ DictKeys(conv.collected_info)
             /\ conv.stage = "confirmation" =>
                   Entries(conv.required_info) \subseteq DictKeys(conv.collected_info)

\* a flow in collecting_info with one reply collected and one to come
C38_Witness ==
    \E sid \in SessionIds :
        LET conv == conversation_states[sid]
        IN /\ conv.stage = "collecting_info"
           /\ DictKeys(conv.collected_info) = {"topic"}
           /\ conv.current_question = "specific_question"

\* C39: the running-task table holds exactly the tasks with a call of
\* execute_async in progress: a task is in it from the start of a call on
\* it until the stream of that call has ended, and not otherwise, also
\* when two calls on the same task overlap.
C39_RunningTasksTrackCalls ==
    \A t \in Tasks :
        running_tasks[t].present <=>
            \E p \in Procs : run[p].pc # "idle" /\ run[p].task_id = t

====
